---- MODULE Spec2Model ----
(***************************************************************************)
(* A model of the name-id crate: the NameId value type (src/src/lib.rs),   *)
(* its runtime constructors with the optional collision registry LOOKUP,   *)
(* and the id! procedural macro (src/macros/src/lib.rs).                   *)
(*                                                                         *)
(* Strings and byte strings are sequences of byte values.  A hasher is     *)
(* modelled by the trace of write calls it has received; finish folds the  *)
(* trace into a digest in 0 .. HashMod-1.                                  *)
(***************************************************************************)
EXTENDS Integers, Sequences, FiniteSets, TLC

VARIABLES config, LOOKUP, out, pc, local

vars == <<config, LOOKUP, out, pc, local>>

(***************************************************************************)
(* Bounds of the model.                                                    *)
(***************************************************************************)
\* longest runtime source value (bytes)
MaxLen == 1
\* longest payload of a macro token (bytes)
MaxTokLen == 1
\* longest token sequence handed to id!
MaxTokens == 2
\* number of digests (stands for 2^64)
HashMod == 5
\* largest registry the sequential runs build
MaxReg == 1
\* number of threads constructing concurrently
NumThreads == 2

SeqsUpTo(S, n) == UNION {[1..k -> S] : k \in 0..n}

\* 'A' and 'a': two texts differing only in letter case
TextBytes == {65, 97}
\* 'a' and 0xFF, a byte that is never valid UTF-8
RawBytes == {97, 255}

Texts == SeqsUpTo(TextBytes, MaxLen)
ByteStrings == SeqsUpTo(RawBytes, MaxLen)

(***************************************************************************)
(* UTF-8 decoding as the standard library does it, for one- and two-byte   *)
(* sequences; every other byte is invalid.                                 *)
(***************************************************************************)
IsCont(b) == b >= 128 /\ b <= 191

RECURSIVE from_utf8_ok(_)
from_utf8_ok(bs) ==
    IF bs = <<>> THEN TRUE
    ELSE IF bs[1] < 128 THEN from_utf8_ok(Tail(bs))
    ELSE IF bs[1] >= 194 /\ bs[1] <= 223 /\ Len(bs) >= 2 /\ IsCont(bs[2])
         THEN from_utf8_ok(Tail(Tail(bs)))
    ELSE FALSE

\* U+FFFD REPLACEMENT CHARACTER, UTF-8 encoded
Replacement == <<239, 191, 189>>

RECURSIVE from_utf8_lossy(_)
from_utf8_lossy(bs) ==
    IF bs = <<>> THEN <<>>
    ELSE IF bs[1] < 128 THEN <<bs[1]>> \o from_utf8_lossy(Tail(bs))
    ELSE IF bs[1] >= 194 /\ bs[1] <= 223 /\ Len(bs) >= 2 /\ IsCont(bs[2])
         THEN <<bs[1], bs[2]>> \o from_utf8_lossy(Tail(Tail(bs)))
    ELSE Replacement \o from_utf8_lossy(Tail(bs))

\* char::to_string: the UTF-8 encoding of a code point below U+0800
char_to_string(c) ==
    IF c < 128 THEN <<c>> ELSE <<192 + (c \div 64), 128 + (c % 64)>>

(***************************************************************************)
(* The hasher.  A trace is a flat sequence: -1 opens a write(bytes) call,  *)
(* -2 a write_u8 call, -3 a write_usize call.                              *)
(***************************************************************************)
Hasher_default == <<>>

write(h, bytes) == h \o <<-1>> \o bytes
write_u8(h, b) == h \o <<-2, b>>
write_usize(h, n) == h \o <<-3, n>>

RECURSIVE Fold(_, _)
Fold(acc, trace) ==
    IF trace = <<>> THEN acc
    ELSE Fold((acc * 3 + trace[1] + 4) % HashMod, Tail(trace))

finish(h) == Fold(1, h)

\* <str as Hash>::hash: the bytes, then the 0xFF terminator
hash_str(s, h) == write_u8(write(h, s), 255)
\* <[u8] as Hash>::hash: the length prefix, then the bytes
hash_bytes(bs, h) == write(write_usize(h, Len(bs)), bs)
\* <CStr as Hash>::hash: the bytes with the nul terminator, as a slice
hash_cstr(bs, h) == hash_bytes(bs \o <<0>>, h)

Digests == 0 .. (HashMod - 1)

(***************************************************************************)
(* Build configuration: the profile's debug_assertions and the crate       *)
(* features debug_name and detect_collisions.                              *)
(***************************************************************************)
Configs == [debug_assertions : BOOLEAN, debug_name : BOOLEAN, detect_collisions : BOOLEAN]

(***************************************************************************)
(* The id! macro.  A token is [kind, val]; val is the payload the parser   *)
(* hands over: spelling, decoded value, base-10 digits, code point.        *)
(***************************************************************************)
Token(k, v) == [kind |-> k, val |-> v]

Tokens ==
    {Token("Ident", v) : v \in SeqsUpTo(TextBytes, MaxTokLen) \ {<<>>}}
    \cup {Token("Str", v) : v \in SeqsUpTo(TextBytes, MaxTokLen)}
    \cup {Token("ByteStr", v) : v \in SeqsUpTo(RawBytes, MaxTokLen)}
    \cup {Token("CStr", v) : v \in SeqsUpTo(RawBytes, MaxTokLen)}
    \cup {Token("Byte", v) : v \in {<<97>>, <<255>>}}
    \cup {Token("Char", v) : v \in {<<97>>, <<233>>}}
    \cup {Token("Int", v) : v \in {<<54>>, <<50, 53, 54>>}}
    \cup {Token("Float", v) : v \in {<<49, 46, 53>>, <<49, 101, 51>>}}
    \cup {Token("Bool", v) : v \in {<<0>>, <<1>>}}
    \cup {Token("Verbatim", <<>>), Token("Lifetime", <<97>>), Token("Punct", <<43>>)}

TokenSeqs == SeqsUpTo(Tokens, MaxTokens)

Ok(s) == [ok |-> TRUE, name |-> s, err |-> "none"]
Err(e) == [ok |-> FALSE, name |-> <<>>, err |-> e]

\* stringify_stream, were a float literal formatted instead of rejected
stringify_stream_float_ok(tok) ==
    CASE tok.kind \in {"Ident", "Str", "Int", "Float"} -> Ok(tok.val)
      [] tok.kind \in {"ByteStr", "CStr", "Byte"} ->
            IF from_utf8_ok(tok.val) THEN Ok(tok.val) ELSE Err("InvalidEncoding")
      [] tok.kind = "Char" -> Ok(char_to_string(tok.val[1]))
      [] tok.kind = "Bool" ->
            IF tok.val[1] = 1 THEN Ok(<<116, 114, 117, 101>>)
            ELSE Ok(<<102, 97, 108, 115, 101>>)
      [] tok.kind = "Lifetime" -> Ok(<<39>> \o tok.val)
      [] OTHER -> Err("UnsupportedLiteral")

stringify_stream(tok) ==
    CASE tok.kind = "Ident" -> Ok(tok.val)
      [] tok.kind = "Str" -> Ok(tok.val)
      [] tok.kind = "ByteStr" ->
            IF from_utf8_ok(tok.val) THEN Ok(tok.val) ELSE Err("InvalidEncoding")
      [] tok.kind = "CStr" ->
            IF from_utf8_ok(tok.val) THEN Ok(tok.val) ELSE Err("InvalidEncoding")
      [] tok.kind = "Byte" ->
            IF from_utf8_ok(tok.val) THEN Ok(tok.val) ELSE Err("InvalidEncoding")
      [] tok.kind = "Char" -> Ok(char_to_string(tok.val[1]))
      [] tok.kind = "Int" -> Ok(tok.val)
      [] tok.kind = "Float" -> Err("NonInjectiveSource")
      [] tok.kind = "Bool" ->
            IF tok.val[1] = 1 THEN Ok(<<116, 114, 117, 101>>)
            ELSE Ok(<<102, 97, 108, 115, 101>>)
      [] tok.kind = "Verbatim" -> Err("UnsupportedLiteral")
      [] tok.kind = "Lifetime" -> Ok(<<39>> \o tok.val)
      [] OTHER -> Err("UnsupportedLiteral")

\* parse_loop, were the separator not pushed
RECURSIVE parse_loop_no_space(_, _)
parse_loop_no_space(name, rest) ==
    IF rest = <<>> THEN Ok(name)
    ELSE LET next == stringify_stream(rest[1])
         IN  IF ~next.ok THEN next
             ELSE parse_loop_no_space(name \o next.name, Tail(rest))

\* the while loop of IdInput::parse: name so far, tokens still in the stream
RECURSIVE parse_loop(_, _)
parse_loop(name, rest) ==
    IF rest = <<>> THEN Ok(name)
    ELSE LET next == stringify_stream(rest[1])
         IN  IF ~next.ok THEN next
             ELSE parse_loop(name \o <<32>> \o next.name, Tail(rest))

IdInput_parse(toks) ==
    IF toks = <<>> THEN Err("UnsupportedLiteral")
    ELSE LET first == stringify_stream(toks[1])
         IN  IF ~first.ok THEN first ELSE parse_loop(first.name, Tail(toks))

\* id, were the name hashed as a byte slice
id_hashes_bytes(toks, cfg) ==
    LET input == IdInput_parse(toks)
    IN  IF ~input.ok
        THEN [kind |-> "compile_error", err |-> input.err, value |-> <<>>, label |-> <<>>]
        ELSE LET hash == finish(hash_bytes(input.name, Hasher_default))
             IN  [kind |-> "from_raw", err |-> "none", value |-> <<hash>>,
                  label |-> IF cfg.debug_assertions THEN <<input.name>> ELSE <<>>]

\* the expansion of id!(toks): a from_raw call, or a compile error
id(toks, cfg) ==
    LET input == IdInput_parse(toks)
    IN  IF ~input.ok
        THEN [kind |-> "compile_error", err |-> input.err, value |-> <<>>, label |-> <<>>]
        ELSE LET hash == finish(hash_str(input.name, Hasher_default))
             IN  [kind |-> "from_raw", err |-> "none", value |-> <<hash>>,
                  label |-> IF cfg.debug_assertions THEN <<input.name>> ELSE <<>>]

(***************************************************************************)
(* NameId and its constructors.  name is <<label>> when the struct has the *)
(* name field and <<>> when it has not.                                    *)
(***************************************************************************)
\* parameters the configuration's from_raw signature takes
from_raw_arity(cfg) == IF cfg.debug_name THEN 2 ELSE 1

from_raw(cfg, value, label) ==
    [value |-> value,
     name |-> IF cfg.debug_name /\ cfg.debug_assertions THEN label ELSE <<>>]

StrKinds == {"str", "String", "Cow"}
CStrKinds == {"CStr", "CString"}
ByteKinds == {"bytes", "Vec"}

Source(k, d) == [kind |-> k, data |-> d]

Sources ==
    {Source(k, d) : k \in StrKinds, d \in Texts}
    \cup {Source(k, d) : k \in CStrKinds \cup ByteKinds, d \in ByteStrings}

\* name.hash(&mut hasher) for the source's type
source_hash(src, h) ==
    IF src.kind \in StrKinds THEN hash_str(src.data, h)
    ELSE IF src.kind \in CStrKinds THEN hash_cstr(src.data, h)
    ELSE hash_bytes(src.data, h)

specialize_to_debug_name(src) ==
    IF src.kind \in StrKinds THEN src.data ELSE from_utf8_lossy(src.data)

\* the digest impl_from computes for a source
impl_from_value(src) == finish(source_hash(src, Hasher_default))

EmptyMap == [d \in {} |-> <<>>]
insert(map, k, v) == [d \in (DOMAIN map) \cup {k} |-> IF d = k THEN v ELSE map[d]]

\* impl_from, were the registered name not compared
impl_from_unchecked(cfg, map, src) ==
    LET value == impl_from_value(src)
        name == specialize_to_debug_name(src)
    IN  IF cfg.detect_collisions
        THEN [map |-> insert(map, value, name),
              ret |-> <<from_raw(cfg, value, <<name>>)>>]
        ELSE [map |-> map, ret |-> <<from_raw(cfg, value, <<name>>)>>]

\* the body impl_from generates: ret is <<id>>, or <<>> when assert_eq! panics
impl_from(cfg, map, src) ==
    LET value == impl_from_value(src)
        name == specialize_to_debug_name(src)
    IN  IF cfg.detect_collisions
        THEN IF value \in DOMAIN map /\ map[value] # name
             THEN [map |-> map, ret |-> <<>>]
             ELSE [map |-> insert(map, value, name),
                   ret |-> <<from_raw(cfg, value, <<name>>)>>]
        ELSE [map |-> map, ret |-> <<from_raw(cfg, value, <<name>>)>>]

(***************************************************************************)
(* State.  out records the last operation: its name, inputs and result.    *)
(***************************************************************************)
Threads == 1 .. NumThreads

NoOut == [op |-> "none", arg |-> <<>>, res |-> <<>>]
Idle == [t \in Threads |-> "idle"]
NoLocal == [t \in Threads |-> <<>>]

Init ==
    /\ config \in Configs
    /\ LOOKUP = EmptyMap
    /\ out = NoOut
    /\ pc = Idle
    /\ local = NoLocal

(***************************************************************************)
(* Build time: the compiler expands an id! invocation.  The macro keeps no *)
(* state between invocations, so a run expands one.                        *)
(***************************************************************************)
Id ==
    /\ out = NoOut
    /\ \E toks \in TokenSeqs :
          out' = [op |-> "id", arg |-> toks, res |-> id(toks, config)]
    /\ UNCHANGED <<config, LOOKUP, pc, local>>

BuildNext == Id

BuildSpec == Init /\ [][BuildNext]_vars

(***************************************************************************)
(* The operations on a constructed NameId.                                 *)
(***************************************************************************)
value(a) == a.value

const_eq_value(a, other) == a.value = other

const_eq(a, b) == const_eq_value(a, b.value)

\* const_cmp_value, were the first comparison >=
const_cmp_value_ge(a, other) ==
    IF a.value >= other THEN "Greater"
    ELSE IF a.value = other THEN "Equal"
    ELSE "Less"

const_cmp_value(a, other) ==
    IF a.value > other THEN "Greater"
    ELSE IF a.value = other THEN "Equal"
    ELSE "Less"

const_cmp(a, b) == const_cmp_value(a, b.value)

\* PartialEq for NameId
eq(a, b) == const_eq(a, b)

\* Ord for NameId
cmp(a, b) == const_cmp(a, b)

\* PartialOrd for NameId
partial_cmp(a, b) == <<cmp(a, b)>>

\* eq_text, were the candidate hashed without the str terminator
eq_text_unterminated(a, t) ==
    LET hashed == finish(write(Hasher_default, t))
    IN  a.value = hashed

\* PartialEq<S: AsRef<str>> for NameId
eq_text(a, t) ==
    LET hashed == finish(hash_str(t, Hasher_default))
    IN  a.value = hashed

\* labels handed to from_raw
Labels == {<<65>>, <<97>>}

\* every NameId from_raw can build in a configuration
NameIds(cfg) == {from_raw(cfg, v, <<l>>) : v \in Digests, l \in Labels}

\* the id! invocations of a program, after examples/usage.rs
ProgramConsts ==
    { <<Token("Ident", <<97>>)>>,
      <<Token("Ident", <<97>>), Token("Int", <<54>>)>> }

\* an expansion compiles when it passes from_raw the parameters it takes
Compiles(call, cfg) ==
    /\ call.kind = "from_raw"
    /\ Len(call.label) + 1 = from_raw_arity(cfg)

\* the constants of a program that compiles
ProgramIds(cfg) ==
    {from_raw(cfg, id(toks, cfg).value[1], id(toks, cfg).label) :
        toks \in {t \in ProgramConsts : Compiles(id(t, cfg), cfg)}}

Result(op, arg, res) == [op |-> op, arg |-> arg, res |-> res]

Pure(o) == /\ out' = o
           /\ UNCHANGED <<config, LOOKUP, pc, local>>

\* NameId::new(src) / src.into()
New ==
    \E src \in Sources :
        LET r == impl_from(config, LOOKUP, src)
        IN  /\ Cardinality(DOMAIN r.map) <= MaxReg
            /\ LOOKUP' = r.map
            /\ out' = Result("new", src, r.ret)
            /\ UNCHANGED <<config, pc, local>>

FromRaw ==
    \E v \in Digests, l \in Labels :
        Pure(Result("from_raw", <<v, l>>, <<from_raw(config, v, <<l>>)>>))

\* a constant built by id! is evaluated
IdConst ==
    \E toks \in ProgramConsts :
        LET call == id(toks, config)
        IN  /\ Compiles(call, config)
            /\ Pure(Result("id_const", toks,
                           <<from_raw(config, call.value[1], call.label)>>))

ValueOn(S) == \E a \in S : Pure(Result("value", <<a>>, value(a)))

ConstEqOn(S) == \E a \in S, b \in S : Pure(Result("const_eq", <<a, b>>, const_eq(a, b)))

ConstEqValueOn(S) ==
    \E a \in S, v \in Digests : Pure(Result("const_eq_value", <<a, v>>, const_eq_value(a, v)))

ConstCmpOn(S) == \E a \in S, b \in S : Pure(Result("const_cmp", <<a, b>>, const_cmp(a, b)))

ConstCmpValueOn(S) ==
    \E a \in S, v \in Digests : Pure(Result("const_cmp_value", <<a, v>>, const_cmp_value(a, v)))

EqOn(S) == \E a \in S, b \in S : Pure(Result("eq", <<a, b>>, eq(a, b)))

CmpOn(S) == \E a \in S, b \in S : Pure(Result("cmp", <<a, b>>, partial_cmp(a, b)))

\* EqTextOn, were the hashed candidate registered
EqTextOn_registers(S) ==
    \E a \in S, t \in Texts :
        /\ out' = Result("eq_text", <<a, t>>, eq_text(a, t))
        /\ LOOKUP' = insert(LOOKUP, finish(hash_str(t, Hasher_default)), t)
        /\ UNCHANGED <<config, pc, local>>

EqTextOn(S) == \E a \in S, t \in Texts : Pure(Result("eq_text", <<a, t>>, eq_text(a, t)))

(***************************************************************************)
(* Run time, one thread: constructions interleaved with the operations on  *)
(* the program's constants.                                                *)
(***************************************************************************)
Value == ValueOn(ProgramIds(config))
ConstEq == ConstEqOn(ProgramIds(config))
ConstEqValue == ConstEqValueOn(ProgramIds(config))
ConstCmp == ConstCmpOn(ProgramIds(config))
ConstCmpValue == ConstCmpValueOn(ProgramIds(config))
Eq == EqOn(ProgramIds(config))
Cmp == CmpOn(ProgramIds(config))
EqText == EqTextOn(ProgramIds(config))

Next ==
    \/ New
    \/ FromRaw
    \/ IdConst
    \/ Value
    \/ ConstEq
    \/ ConstEqValue
    \/ ConstCmp
    \/ ConstCmpValue
    \/ Eq
    \/ Cmp
    \/ EqText

Spec == Init /\ [][Next]_vars

(***************************************************************************)
(* The operations as functions: one operation on identifiers drawn from    *)
(* everything from_raw can build.                                          *)
(***************************************************************************)
AnyValue == out = NoOut /\ ValueOn(NameIds(config))
AnyConstEq == out = NoOut /\ ConstEqOn(NameIds(config))
AnyConstEqValue == out = NoOut /\ ConstEqValueOn(NameIds(config))
AnyConstCmp == out = NoOut /\ ConstCmpOn(NameIds(config))
AnyConstCmpValue == out = NoOut /\ ConstCmpValueOn(NameIds(config))
AnyEq == out = NoOut /\ EqOn(NameIds(config))
AnyCmp == out = NoOut /\ CmpOn(NameIds(config))
AnyEqText == out = NoOut /\ EqTextOn(NameIds(config))

PureNext ==
    \/ AnyValue
    \/ AnyConstEq
    \/ AnyConstEqValue
    \/ AnyConstCmp
    \/ AnyConstCmpValue
    \/ AnyEq
    \/ AnyCmp
    \/ AnyEqText

PureSpec == Init /\ [][PureNext]_vars

(***************************************************************************)
(* Run time, several threads: each thread runs one construction.  The      *)
(* registry is a static mut without a lock, so the lookup (line 232) and   *)
(* the insertion (line 241) are separate steps, and an insertion racing    *)
(* with another one may write back the map it read.                        *)
(***************************************************************************)
Step(t, label, l) ==
    /\ pc' = [pc EXCEPT ![t] = label]
    /\ local' = [local EXCEPT ![t] = l]

\* lines 226-228: hash the source; line 231: its name
Call(t) ==
    /\ pc[t] = "idle"
    /\ \E src \in Sources :
          LET l == [src |-> src, value |-> impl_from_value(src),
                    name |-> specialize_to_debug_name(src),
                    snap |-> EmptyMap, ret |-> <<>>]
          IN  IF config.detect_collisions
              THEN Step(t, "get", l)
              ELSE Step(t, "done",
                        [l EXCEPT !.ret = <<from_raw(config, l.value, <<l.name>>)>>])
    /\ UNCHANGED <<config, LOOKUP, out>>

\* lines 232-240: lookup().get(&value) and the assert_eq!
Get(t) ==
    /\ pc[t] = "get"
    /\ IF local[t].value \in DOMAIN LOOKUP /\ LOOKUP[local[t].value] # local[t].name
       THEN Step(t, "panicked", local[t])
       ELSE Step(t, "insert", local[t])
    /\ UNCHANGED <<config, LOOKUP, out>>

\* line 241: lookup().insert(value, name) reads the map
InsertRead(t) ==
    /\ pc[t] = "insert"
    /\ Step(t, "store", [local[t] EXCEPT !.snap = LOOKUP])
    /\ UNCHANGED <<config, LOOKUP, out>>

\* line 241: the insertion writes the map; lines 243-246: the NameId returned
InsertWrite(t) ==
    /\ pc[t] = "store"
    /\ LOOKUP' = insert(local[t].snap, local[t].value, local[t].name)
    /\ Step(t, "done",
            [local[t] EXCEPT !.ret = <<from_raw(config, local[t].value, <<local[t].name>>)>>])
    /\ UNCHANGED <<config, out>>

ConcNext ==
    \E t \in Threads :
        \/ Call(t)
        \/ Get(t)
        \/ InsertRead(t)
        \/ InsertWrite(t)

ConcSpec == Init /\ [][ConcNext]_vars

(***************************************************************************)
(* Properties.                                                             *)
(***************************************************************************)
\* what NameId::new returns for a source when the registry is empty
Constructed(src) == impl_from(config, EmptyMap, src).ret[1]

Supported(tok) == stringify_stream(tok).ok

\* the canonical strings of the tokens, one space between consecutive ones
RECURSIVE JoinSpace(_)
JoinSpace(toks) ==
    IF Len(toks) = 1 THEN stringify_stream(toks[1]).name
    ELSE stringify_stream(toks[1]).name \o <<32>> \o JoinSpace(Tail(toks))

\* C1: the digest id! emits for a token sequence is the digest NameId::new
\* computes at run time for the sequence's canonical string, given as a &str,
\* a String or a Cow<str>.
C1_BuildMatchesRuntime ==
    (out.op = "id" /\ out.res.kind = "from_raw") =>
        \A k \in StrKinds :
            out.res.value[1] = Constructed(Source(k, IdInput_parse(out.arg).name)).value

C1_Witness ==
    /\ out.op = "id"
    /\ out.res.kind = "from_raw"
    /\ Len(out.arg) = 2
    /\ out.arg[1].kind = "ByteStr"
    /\ out.arg[2].kind = "Lifetime"

\* C7: for a non-empty sequence of supported tokens id! succeeds, its
\* canonical string is the tokens' canonical strings joined by one space each,
\* and its digest is the digest of constructing the joined string.
C7_JoinSingleSpace ==
    (/\ out.op = "id"
     /\ Len(out.arg) >= 1
     /\ \A i \in 1..Len(out.arg) : Supported(out.arg[i])) =>
        /\ out.res.kind = "from_raw"
        /\ IdInput_parse(out.arg).name = JoinSpace(out.arg)
        /\ config.debug_assertions => out.res.label = <<JoinSpace(out.arg)>>
        /\ out.res.value[1] = Constructed(Source("str", JoinSpace(out.arg))).value

C7_Witness ==
    /\ out.op = "id"
    /\ out.arg = <<Token("Ident", <<97>>), Token("Int", <<54>>)>>
    /\ out.res.label = << <<97, 32, 54>> >>

\* C9: a float literal, alone or after supported tokens, ends the expansion
\* in the NonInjectiveSource error: no digest and no label are emitted.
C9_FloatRejected ==
    (/\ out.op = "id"
     /\ \E i \in 1..Len(out.arg) :
           /\ out.arg[i].kind = "Float"
           /\ \A j \in 1..(i - 1) : Supported(out.arg[j])) =>
        /\ out.res.kind = "compile_error"
        /\ out.res.err = "NonInjectiveSource"
        /\ out.res.value = <<>>
        /\ out.res.label = <<>>

C9_Witness ==
    /\ out.op = "id"
    /\ Len(out.arg) = 2
    /\ out.arg[1].kind = "Ident"
    /\ out.arg[2].kind = "Float"
    /\ out.res.err = "NonInjectiveSource"

\* C10: in every configuration the from_raw call id! emits passes a label
\* exactly when that configuration's from_raw takes one.
C10_EmittedCallWellFormed ==
    (out.op = "id" /\ out.res.kind = "from_raw") =>
        (Len(out.res.label) = 1 <=> from_raw_arity(config) = 2)

\* C2: with detect_collisions, a construction whose digest is registered
\* under the same name leaves the registry as it was and returns the NameId;
\* one whose digest is registered under another name panics: it returns
\* nothing and leaves the registry as it was.
C2_RegisterTwice ==
    [][(config.detect_collisions /\ out'.op = "new") =>
          LET v == impl_from_value(out'.arg)
              n == specialize_to_debug_name(out'.arg)
          IN  /\ (v \in DOMAIN LOOKUP /\ LOOKUP[v] = n) =>
                    (LOOKUP' = LOOKUP /\ Len(out'.res) = 1 /\ out'.res[1].value = v)
              /\ (v \in DOMAIN LOOKUP /\ LOOKUP[v] # n) =>
                    (LOOKUP' = LOOKUP /\ out'.res = <<>>)
              /\ (v \notin DOMAIN LOOKUP) =>
                    (LOOKUP' = insert(LOOKUP, v, n) /\ Len(out'.res) = 1)]_vars

C2_Witness ==
    /\ config.detect_collisions
    /\ out.op = "new"
    /\ out.res = <<>>
    /\ impl_from_value(out.arg) \in DOMAIN LOOKUP
    /\ LOOKUP[impl_from_value(out.arg)] # specialize_to_debug_name(out.arg)

\* C4: only a runtime construction changes the registry.
C4_RegistryFrame == [][LOOKUP' # LOOKUP => out'.op = "new"]_vars

C4_Witness ==
    /\ LOOKUP # EmptyMap
    /\ out.op = "eq_text"
    /\ out.res = TRUE

\* two sources feed the hasher different writes, yet the digests agree
HashCollision(s1, s2) ==
    /\ source_hash(s1, Hasher_default) # source_hash(s2, Hasher_default)
    /\ impl_from_value(s1) = impl_from_value(s2)

\* C5: a constructed source and any other source have equal canonical names
\* exactly when they have equal digests, unless the hash collides on them.
C5_CanonicalIffDigest ==
    (out.op = "new" /\ out.res # <<>>) =>
        \A s2 \in Sources :
            ~HashCollision(out.arg, s2) =>
                (specialize_to_debug_name(out.arg) = specialize_to_debug_name(s2)
                    <=> out.res[1].value = Constructed(s2).value)

Lower(b) == IF b >= 65 /\ b <= 90 THEN b + 32 ELSE b

CaseDiffers(s, t) ==
    /\ s # t
    /\ Len(s) = Len(t)
    /\ \A i \in 1..Len(s) : Lower(s[i]) = Lower(t[i])

\* C6: NameId == text is true exactly when the NameId's digest is the digest
\* constructing the text gives; so a NameId built from a text equals that text
\* and differs from a text of another letter case whose digest is different.
C6_EqualsText ==
    out.op = "eq_text" =>
        LET a == out.arg[1]
            t == out.arg[2]
        IN  /\ \A k \in StrKinds :
                  out.res <=> (a.value = Constructed(Source(k, t)).value)
            /\ \A s \in Texts :
                  a.value = Constructed(Source("str", s)).value =>
                      /\ s = t => out.res
                      /\ (/\ CaseDiffers(s, t)
                          /\ ~HashCollision(Source("str", s), Source("str", t))) => ~out.res

C6_Witness ==
    /\ out.op = "eq_text"
    /\ out.arg[2] = <<65>>
    /\ out.arg[1].value = Constructed(Source("str", <<97>>)).value
    /\ out.res = FALSE

Orderings == {"Less", "Equal", "Greater"}

Reverse(o) == IF o = "Less" THEN "Greater" ELSE IF o = "Greater" THEN "Less" ELSE o

\* C8: equality and order of NameIds are those of the digests, whatever the
\* labels: equal iff the digests are equal; exactly one of Less, Equal and
\* Greater, following the digests' order, antisymmetric and transitive; the
\* _value forms, PartialEq, Ord and PartialOrd agree.
C8_DigestOrder ==
    out.op \in {"const_eq", "eq", "const_cmp", "cmp", "const_eq_value", "const_cmp_value"} =>
        LET a == out.arg[1]
            bv == IF out.op \in {"const_eq_value", "const_cmp_value"}
                  THEN out.arg[2] ELSE out.arg[2].value
        IN  /\ out.op \in {"const_eq", "eq", "const_eq_value"} =>
                  out.res = (a.value = bv)
            /\ out.op \in {"const_cmp", "const_cmp_value"} =>
                  /\ out.res \in Orderings
                  /\ out.res = "Equal" <=> a.value = bv
                  /\ out.res = "Less" <=> a.value < bv
                  /\ out.res = "Greater" <=> a.value > bv
            /\ out.op = "cmp" =>
                  out.res = <<const_cmp(a, out.arg[2])>>
            /\ out.op \in {"const_eq", "const_cmp"} =>
                  LET b == out.arg[2]
                  IN  /\ const_eq(a, b) = const_eq_value(a, b.value)
                      /\ const_cmp(a, b) = const_cmp_value(a, b.value)
                      /\ eq(a, b) = const_eq(a, b)
                      /\ const_eq(a, b) <=> const_cmp(a, b) = "Equal"
                      /\ const_cmp(b, a) = Reverse(const_cmp(a, b))
                      /\ \A c \in NameIds(config) :
                            (const_cmp(a, b) = "Less" /\ const_cmp(b, c) = "Less")
                                => const_cmp(a, c) = "Less"

C8_Witness ==
    /\ out.op = "const_cmp"
    /\ out.arg[1].name # out.arg[2].name
    /\ out.arg[1].value = out.arg[2].value
    /\ out.res = "Equal"

AllReturned == \A t \in Threads : pc[t] \in {"done", "panicked"}

\* C3: when all concurrent constructions have ended, every one that returned
\* has its digest registered under its name, and of two with one digest and
\* different names at least one panicked.
C3_AtomicCheckThenInsert ==
    (config.detect_collisions /\ AllReturned) =>
        /\ \A t \in Threads :
              pc[t] = "done" =>
                  /\ local[t].value \in DOMAIN LOOKUP
                  /\ LOOKUP[local[t].value] = local[t].name
        /\ \A t \in Threads, u \in Threads :
              (/\ local[t].value = local[u].value
               /\ local[t].name # local[u].name)
                  => (pc[t] = "panicked" \/ pc[u] = "panicked")

====
